---- MODULE Spec2Model ----
(***************************************************************************)
(* email2jira: the HTML email normalizer of src/email_utils.py as it is    *)
(* driven by process_email_to_jira (src/email_to_JIRA_ticket.py), and the  *)
(* runs of main over the polled folder (MainSpec).                         *)
(*                                                                         *)
(* Strings are sequences of atoms.  An atom is a TLA+ string standing for  *)
(* a run of characters that no pattern of the code splits: every character *)
(* the code tests for on its own ("/", "@", ";", "?", "#", " ", "\n",      *)
(* "\t", each base64 digit) is an atom of its own, and so is each literal  *)
(* prefix the code matches ("cid:", "data:image", "base64,").              *)
(*                                                                         *)
(* An HTML string is a sequence of lexical tokens (start tag, end tag,     *)
(* self-closed tag, one atom of character data); Parse builds the          *)
(* BeautifulSoup tree from it the way bs4 drives html.parser, and          *)
(* Serialize writes a tree back the way str(soup) does.                    *)
(***************************************************************************)
EXTENDS Integers, Sequences, FiniteSets, TLC

VARIABLES
    pc,                 \* position of process_email_to_jira in its body
    email_body,         \* email_message['body']: content and contentType
    body,               \* cleaned content returned by extract_email_body
    embedded_objects,   \* objects returned by extract_email_body
    jira_body,          \* result of convert_html_to_jira_markup
    raised,             \* "" or the function an exception escaped from
    folder,             \* the messages of the polled folder, newest first
    archive,            \* ids of the messages in the archive folder
    tickets,            \* per message id, the number of issues created for it
    main_pc,            \* position of main in its body
    runs,               \* number of runs of main started
    messages,           \* the batch main fetched
    msg_idx,            \* number of messages the for loop of main has taken
    success_count,      \* success_count of main
    processed,          \* the calls of process_email_to_jira that returned
    userid,             \* userid of process_email_to_jira: "" is None
    jira_issue,         \* jira_issue of process_email_to_jira: "" is unset
    att_idx,            \* number of embedded objects the upload loop has taken
    calls               \* the requests of the current call, with their outcome

\* the mailbox and the issue tracker
mailboxVars == <<folder, archive, tickets>>
\* the locals of main
mainVars == <<main_pc, runs, messages, msg_idx, success_count, processed>>
\* the locals of process_email_to_jira besides those of the normalizer
callVars == <<userid, jira_issue, att_idx, calls>>
glue == <<mailboxVars, mainVars, callVars>>

vars == <<pc, email_body, body, embedded_objects, jira_body, raised, glue>>

-----------------------------------------------------------------------------
(* Python values: a str or None *)

PyNone == [none |-> TRUE, s |-> <<>>]
PyStr(s) == [none |-> FALSE, s |-> s]
\* `not x` for a str-or-None value
Falsy(v) == v.none \/ v.s = <<>>

-----------------------------------------------------------------------------
(* str methods and regular expressions, on sequences of atoms *)

StartsWith(s, p) == Len(s) >= Len(p) /\ SubSeq(s, 1, Len(p)) = p

DropFirst(s, n) == SubSeq(s, n + 1, Len(s))

\* length of the run of atoms in `set` that starts s
RECURSIVE RunLen(_, _)
RunLen(s, set) ==
    IF s # <<>> /\ Head(s) \in set THEN 1 + RunLen(Tail(s), set) ELSE 0

\* s.replace(a, '')
RemoveAll(s, a) == SelectSeq(s, LAMBDA x : x # a)

\* s.split(a): the list of pieces
RECURSIVE Split(_, _)
Split(s, a) ==
    LET n == RunLen(s, {x \in {s[i] : i \in 1..Len(s)} : x # a})
    IN IF n = Len(s) THEN <<s>>
       ELSE <<SubSeq(s, 1, n)>> \o Split(DropFirst(s, n + 1), a)

Last(l) == l[Len(l)]

RECURSIVE Join(_, _)
Join(l, sep) ==
    IF l = <<>> THEN <<>>
    ELSE IF Len(l) = 1 THEN l[1]
    ELSE l[1] \o sep \o Join(Tail(l), sep)

\* characters str.strip() removes
Whitespace == {" ", "\n", "\t", "\r", "\f", "U+00A0"}

RECURSIVE LStrip(_)
LStrip(s) == IF s # <<>> /\ Head(s) \in Whitespace THEN LStrip(Tail(s)) ELSE s

RECURSIVE RStrip(_)
RStrip(s) ==
    IF s # <<>> /\ s[Len(s)] \in Whitespace
    THEN RStrip(SubSeq(s, 1, Len(s) - 1)) ELSE s

Strip(s) == RStrip(LStrip(s))

\* re.sub(c{min,}, c * keep, s): every maximal run of at least `min` atoms c
\* becomes `keep` atoms c
RECURSIVE SubRuns(_, _, _, _)
SubRuns(s, c, min, keep) ==
    IF s = <<>> THEN <<>>
    ELSE IF Head(s) = c
    THEN LET r == RunLen(s, {c})
         IN (IF r >= min THEN [i \in 1..keep |-> c] ELSE SubSeq(s, 1, r))
            \o SubRuns(DropFirst(s, r), c, min, keep)
    ELSE <<Head(s)>> \o SubRuns(Tail(s), c, min, keep)

\* needle occurs in hay as a contiguous substring
Contains(hay, needle) ==
    \E i \in 0..(Len(hay) - Len(needle)) :
        SubSeq(hay, i + 1, i + Len(needle)) = needle

\* str(n) for n >= 0
RECURSIVE DecStr(_)
DecStr(n) ==
    LET d == <<"0", "1", "2", "3", "4", "5", "6", "7", "8", "9">>
    IN IF n < 10 THEN <<d[n + 1]>> ELSE DecStr(n \div 10) \o <<d[(n % 10) + 1]>>

-----------------------------------------------------------------------------
(* lexical tokens of an HTML string *)

NoAttrs == [src |-> <<>>, alt |-> <<>>, href |-> <<>>]

\* Tag.get(attr, '') is '' for an attribute that is absent, so an absent
\* attribute and an empty one are the same value here
Data(c) == [k |-> "data", name |-> c] @@ NoAttrs
Start(name) == [k |-> "start", name |-> name] @@ NoAttrs
End(name) == [k |-> "end", name |-> name] @@ NoAttrs
StartEnd(name) == [k |-> "startend", name |-> name] @@ NoAttrs
\* a character reference: &lt; &gt; &amp; are CharRef("<"), CharRef(">"),
\* CharRef("&")
CharRef(c) == [k |-> "charref", name |-> c] @@ NoAttrs
ImgTok(src, alt) == [Start("img") EXCEPT !.src = src, !.alt = alt]
ATok(href) == [Start("a") EXCEPT !.href = href]

\* HTMLTreeBuilder.empty_element_tags (those the inputs use)
EmptyElementTags == {"br", "img", "hr"}
\* HTMLTreeBuilder.preserve_whitespace_tags
PreserveWhitespaceTags == {"pre", "textarea"}
\* BeautifulSoup.ASCII_SPACES
AsciiSpaces == {" ", "\n", "\t", "\f", "\r"}

-----------------------------------------------------------------------------
(* the BeautifulSoup tree: node 1 is the soup, parent 0 is None *)

Root == 1
TextNode(s, p) ==
    [name |-> "#text", text |-> s, kids |-> <<>>, parent |-> p] @@ NoAttrs
ElemNode(tok, p) ==
    [name |-> tok.name, text |-> <<>>, kids |-> <<>>, parent |-> p,
     src |-> tok.src, alt |-> tok.alt, href |-> tok.href]
EmptySoup ==
    << [name |-> "[document]", text |-> <<>>, kids |-> <<>>, parent |-> 0]
       @@ NoAttrs >>

\* pre-order walk below the nodes ids
RECURSIVE Walk(_, _)
Walk(t, ids) ==
    IF ids = <<>> THEN <<>>
    ELSE <<Head(ids)>> \o Walk(t, t[Head(ids)].kids) \o Walk(t, Tail(ids))

Descendants(t, id) == Walk(t, t[id].kids)

\* soup.find_all(names): the elements below the soup, in document order
FindAll(t, names) ==
    SelectSeq(Descendants(t, Root), LAMBDA id : t[id].name \in names)

\* tag.find_all(names, recursive=False)
FindChildren(t, id, names) ==
    SelectSeq(t[id].kids, LAMBDA c : t[c].name \in names)

RECURSIVE ConcatText(_, _)
ConcatText(t, ids) ==
    IF ids = <<>> THEN <<>>
    ELSE (IF t[Head(ids)].name = "#text" THEN t[Head(ids)].text ELSE <<>>)
         \o ConcatText(t, Tail(ids))

\* tag.get_text()
GetText(t, id) == ConcatText(t, Descendants(t, id))

\* PageElement.replace_with(str) on a state [t, raised]: ValueError when the
\* element is not part of a tree (parent is None); else the element is
\* extracted (it keeps its children) and a new string takes its place
ReplaceWith(st, id, s) ==
    IF st.raised THEN st
    ELSE IF st.t[id].parent = 0 THEN [st EXCEPT !.raised = TRUE]
    ELSE LET p == st.t[id].parent
             new == Len(st.t) + 1
             t2 == Append(st.t, TextNode(s, p))
         IN [st EXCEPT !.t =
                [t2 EXCEPT ![p].kids =
                               [i \in 1..Len(@) |-> IF @[i] = id THEN new ELSE @[i]],
                           ![id].parent = 0]]

-----------------------------------------------------------------------------
(* BeautifulSoup(markup, 'html.parser') *)

\* BeautifulSoup.endData: the pending character data becomes one string of
\* the current tag; all-whitespace data outside pre/textarea is reduced to
\* one newline or one space
EndData(ps) ==
    IF ps.data = <<>> THEN ps
    ELSE LET cur == ps.stack[Len(ps.stack)]
             preserve == \E i \in 1..Len(ps.stack) :
                             ps.t[ps.stack[i]].name \in PreserveWhitespaceTags
             strippable == \A i \in 1..Len(ps.data) : ps.data[i] \in AsciiSpaces
             s == IF ~preserve /\ strippable
                  THEN (IF \E i \in 1..Len(ps.data) : ps.data[i] = "\n"
                        THEN <<"\n">> ELSE <<" ">>)
                  ELSE ps.data
             new == Len(ps.t) + 1
         IN [ps EXCEPT !.t = [Append(ps.t, TextNode(s, cur))
                                 EXCEPT ![cur].kids = Append(@, new)],
                       !.data = <<>>]

\* BeautifulSoup._popToTag: close the most recently opened tag of that name
\* and everything opened inside it; nothing when no such tag is open
PopToTag(ps, name) ==
    LET open == {i \in 2..Len(ps.stack) : ps.t[ps.stack[i]].name = name}
    IN IF open = {} THEN ps
       ELSE LET top == CHOOSE i \in open : \A j \in open : j <= i
            IN [ps EXCEPT !.stack = SubSeq(@, 1, top - 1)]

\* handle_starttag / handle_startendtag
HandleStartTag(ps0, tok) ==
    LET ps == EndData(ps0)
        cur == ps.stack[Len(ps.stack)]
        new == Len(ps.t) + 1
        pushed == [ps EXCEPT !.t = [Append(ps.t, ElemNode(tok, cur))
                                       EXCEPT ![cur].kids = Append(@, new)],
                             !.stack = Append(@, new)]
    IN IF tok.name \in EmptyElementTags \/ tok.k = "startend"
       THEN PopToTag(pushed, tok.name)
       ELSE pushed

HandleEndTag(ps, tok) == PopToTag(EndData(ps), tok.name)

HandleData(ps, tok) == [ps EXCEPT !.data = Append(@, tok.name)]

\* handle_entityref / handle_charref: the character the reference stands for
\* goes to handle_data
HandleCharRef(ps, tok) == HandleData(ps, Data(tok.name))

RECURSIVE Feed(_, _)
Feed(ps, toks) ==
    IF toks = <<>> THEN EndData(ps)
    ELSE LET tok == Head(toks)
         IN Feed(CASE tok.k = "data" -> HandleData(ps, tok)
                   [] tok.k = "charref" -> HandleCharRef(ps, tok)
                   [] tok.k = "end" -> HandleEndTag(ps, tok)
                   [] OTHER -> HandleStartTag(ps, tok),
                 Tail(toks))

Parse(toks) == Feed([t |-> EmptySoup, stack |-> <<Root>>, data |-> <<>>], toks).t

\* the atoms html.parser reads as the name of a tag after "<" or "</"
NameAtoms ==
    {"x", "y", "h1", "h2", "h3", "h4", "h5", "h6", "b", "strong", "i", "em",
     "u", "s", "strike", "del", "a", "ul", "ol", "li", "pre", "code",
     "blockquote", "br", "p", "div", "img"}

\* HTMLParser.goahead on a string given as its atoms: "<" name ">" is a start
\* tag, "<" "/" name ">" an end tag, "&lt;" "&gt;" "&amp;" are character
\* references, and every other atom is character data
RECURSIVE Tokenize(_)
Tokenize(s) ==
    IF s = <<>> THEN <<>>
    ELSE IF Len(s) >= 3 /\ s[1] = "<" /\ s[2] \in NameAtoms /\ s[3] = ">"
    THEN <<Start(s[2])>> \o Tokenize(DropFirst(s, 3))
    ELSE IF /\ Len(s) >= 4 /\ s[1] = "<" /\ s[2] = "/"
            /\ s[3] \in NameAtoms /\ s[4] = ">"
    THEN <<End(s[3])>> \o Tokenize(DropFirst(s, 4))
    ELSE IF s[1] \in {"&lt;", "&gt;", "&amp;"}
    THEN <<CharRef(CASE s[1] = "&lt;" -> "<" [] s[1] = "&gt;" -> ">"
                     [] s[1] = "&amp;" -> "&")>> \o Tokenize(Tail(s))
    ELSE <<Data(s[1])>> \o Tokenize(Tail(s))

\* EntitySubstitution.substitute_xml, the formatter of str(soup)
SubstituteXml(c) == IF c \in {"<", ">", "&"} THEN CharRef(c) ELSE Data(c)

\* str(soup): Tag.decode
RECURSIVE Decode(_, _)
Decode(t, ids) ==
    IF ids = <<>> THEN <<>>
    ELSE LET n == t[Head(ids)]
             tok == [k |-> "start", name |-> n.name,
                     src |-> n.src, alt |-> n.alt, href |-> n.href]
             one == IF n.name = "#text"
                    THEN [i \in 1..Len(n.text) |-> SubstituteXml(n.text[i])]
                    ELSE IF n.name \in EmptyElementTags /\ n.kids = <<>>
                    THEN << [tok EXCEPT !.k = "startend"] >>
                    ELSE <<tok>> \o Decode(t, n.kids) \o <<End(n.name)>>
         IN one \o Decode(t, Tail(ids))

\* mutant of Serialize: the text of the soup instead of its markup
Serialize_TextOnly(t) ==
    LET text == GetText(t, Root)
    IN [i \in 1..Len(text) |-> Data(text[i])]

Serialize(t) == Decode(t, t[Root].kids)

-----------------------------------------------------------------------------
(* base64.b64decode(s) = binascii.a2b_base64(s), not strict *)

\* binascii's table_a2b, for the base64 digits the inputs use; every other
\* character except "=" is no digit and is skipped
B64Digit == [c \in {"Q", "U", "J", "D"} |->
                CASE c = "Q" -> 16 [] c = "U" -> 20 [] c = "J" -> 9 [] c = "D" -> 3]

\* the decoding loop: d = [pos, left, pads, out, done]
B64Step(d, ch) ==
    IF d.done THEN d
    ELSE IF ch = "="
    THEN (IF d.pos >= 2 /\ d.pos + d.pads + 1 >= 4
          THEN [d EXCEPT !.done = TRUE, !.pos = 0]
          ELSE [d EXCEPT !.pads = IF d.pos >= 2 THEN @ + 1 ELSE @])
    ELSE IF ch \notin DOMAIN B64Digit THEN d
    ELSE LET v == B64Digit[ch]
         IN CASE d.pos = 0 -> [d EXCEPT !.pads = 0, !.pos = 1, !.left = v]
              [] d.pos = 1 -> [d EXCEPT !.pads = 0, !.pos = 2, !.left = v % 16,
                                        !.out = Append(@, d.left * 4 + v \div 16)]
              [] d.pos = 2 -> [d EXCEPT !.pads = 0, !.pos = 3, !.left = v % 4,
                                        !.out = Append(@, d.left * 16 + v \div 4)]
              [] d.pos = 3 -> [d EXCEPT !.pads = 0, !.pos = 0, !.left = 0,
                                        !.out = Append(@, d.left * 64 + v)]

RECURSIVE B64Loop(_, _)
B64Loop(d, s) == IF s = <<>> THEN d ELSE B64Loop(B64Step(d, Head(s)), Tail(s))

\* [ok, bytes]: binascii.Error when the digits do not fill whole quads
B64Decode(s) ==
    LET d == B64Loop([pos |-> 0, left |-> 0, pads |-> 0, out |-> <<>>,
                      done |-> FALSE], s)
    IN [ok |-> d.pos = 0, bytes |-> IF d.pos = 0 THEN d.out ELSE <<>>]

-----------------------------------------------------------------------------
(* extract_embedded_images *)

DataImagePrefix == <<"data:image", "/">>
CidPrefix == <<"cid:">>

AtomsOf(s) == {s[i] : i \in 1..Len(s)}

\* re.match(r'data:image/([^;]+);base64,(.+)', src): group 1 runs to the
\* first ";", group 2 from after ";base64," to the first newline
DataUriMatch(src) ==
    LET rest == DropFirst(src, Len(DataImagePrefix))
        n == RunLen(rest, AtomsOf(rest) \ {";"})
        after == DropFirst(rest, n)
        pay == DropFirst(after, 2)
        m == RunLen(pay, AtomsOf(pay) \ {"\n"})
    IN IF /\ StartsWith(src, DataImagePrefix)
          /\ n >= 1
          /\ StartsWith(after, <<";", "base64,">>)
          /\ m >= 1
       THEN [ok |-> TRUE, image_type |-> SubSeq(rest, 1, n),
             base64_data |-> SubSeq(pay, 1, m)]
       ELSE [ok |-> FALSE, image_type |-> <<>>, base64_data |-> <<>>]

\* f"!{filename}|thumbnail!"
Thumbnail(filename) == <<"!">> \o filename \o <<"|thumbnail!">>

\* mutant of EmbeddedFilename: the 0-based index of enumerate
EmbeddedFilename_ZeroBased(idx, image_type) ==
    <<"embedded_image_">> \o DecStr(idx) \o <<".">> \o image_type

\* f"embedded_image_{idx + 1}.{image_type}"
EmbeddedFilename(idx, image_type) ==
    <<"embedded_image_">> \o DecStr(idx + 1) \o <<".">> \o image_type

\* cid.split('@')[0] if '@' in cid else cid, for cid = src.replace('cid:', '')
CleanFilename(src) ==
    LET cid == RemoveAll(src, "cid:")
    IN IF "@" \in AtomsOf(cid) THEN Split(cid, "@")[1] ELSE cid

\* mutant of ExtractBase64: the decode error is not caught
ExtractBase64_Uncaught(st, idx, img) ==
    LET match == DataUriMatch(st.t[img].src)
        image_bytes == B64Decode(match.base64_data)
        filename == EmbeddedFilename(idx, match.image_type)
        obj == [filename |-> filename, content |-> image_bytes.bytes,
                content_type |-> <<"image", "/">> \o match.image_type]
    IN IF ~match.ok THEN st
       ELSE IF ~image_bytes.ok THEN [st EXCEPT !.raised = TRUE]
       ELSE ReplaceWith([st EXCEPT !.objs = Append(@, obj)], img,
                        Thumbnail(filename))

\* the try block of the data:image branch for the image at idx (0-based)
ExtractBase64(st, idx, img) ==
    LET match == DataUriMatch(st.t[img].src)
        image_bytes == B64Decode(match.base64_data)
        filename == EmbeddedFilename(idx, match.image_type)
        obj == [filename |-> filename, content |-> image_bytes.bytes,
                content_type |-> <<"image", "/">> \o match.image_type]
    IN IF ~match.ok THEN st
       ELSE IF ~image_bytes.ok THEN st      \* except Exception: logged
       ELSE LET r == ReplaceWith([st EXCEPT !.objs = Append(@, obj)], img,
                                 Thumbnail(filename))
            IN [r EXCEPT !.raised = FALSE]

\* mutant of ExtractOne: a cid: image is logged and left in place
ExtractOne_CidKept(st, idx, img) ==
    IF StartsWith(st.t[img].src, DataImagePrefix)
    THEN ExtractBase64(st, idx, img)
    ELSE st

\* the body of the loop over enumerate(img_tags)
ExtractOne(st, idx, img) ==
    LET src == st.t[img].src
    IN IF StartsWith(src, DataImagePrefix) THEN ExtractBase64(st, idx, img)
       ELSE IF StartsWith(src, CidPrefix)
       THEN ReplaceWith(st, img, Thumbnail(CleanFilename(src)))
       ELSE st

RECURSIVE ExtractLoop(_, _, _)
ExtractLoop(st, img_tags, idx) ==
    IF idx >= Len(img_tags) \/ st.raised THEN st
    ELSE ExtractLoop(ExtractOne(st, idx, img_tags[idx + 1]), img_tags, idx + 1)

\* [body, objs, raised]
extract_embedded_images(html_body) ==
    IF Falsy(html_body)
    THEN [body |-> html_body, objs |-> <<>>, raised |-> FALSE]
    ELSE LET soup == Parse(html_body.s)
             st == ExtractLoop([t |-> soup, objs |-> <<>>, raised |-> FALSE],
                               FindAll(soup, {"img"}), 0)
         IN [body |-> PyStr(Serialize(st.t)), objs |-> st.objs,
             raised |-> st.raised]

\* a key the dict does not hold
Missing == "<missing>"
DictGet(v, default) == IF v = Missing THEN default ELSE v

\* mutant of extract_embedded_objects_from_email: a body without
\* contentType is taken for html
extract_embedded_objects_from_email_DefaultHtml(eb) ==
    IF DictGet(eb.contentType, "html") = "html"
    THEN extract_embedded_images(eb.content)
    ELSE [body |-> eb.content, objs |-> <<>>, raised |-> FALSE]

extract_embedded_objects_from_email(eb) ==
    IF DictGet(eb.contentType, "text") = "html"
    THEN extract_embedded_images(eb.content)
    ELSE [body |-> eb.content, objs |-> <<>>, raised |-> FALSE]

-----------------------------------------------------------------------------
(* convert_html_to_jira_markup *)

\* the text an <img> is replaced by
ImageMarkup(n) ==
    LET name0 == IF "/" \in AtomsOf(n.src) THEN Last(Split(n.src, "/")) ELSE n.src
        filename == Split(Split(name0, "?")[1], "#")[1]
    IN IF n.src # <<>>
       THEN (IF n.alt # <<>>
             THEN <<"!">> \o filename \o <<"|alt=">> \o n.alt \o <<",thumbnail!">>
             ELSE Thumbnail(filename))
       ELSE (IF n.alt # <<>> THEN n.alt ELSE <<"[Image]">>)

\* '\n' + '\n'.join(f'{bullet} {li.get_text().strip()}' for each direct li) + '\n'
ListMarkup(t, id, bullet) ==
    LET lis == FindChildren(t, id, {"li"})
        items == [i \in 1..Len(lis) |->
                     <<bullet, " ">> \o Strip(GetText(t, lis[i]))]
    IN <<"\n">> \o Join(items, <<"\n">>) \o <<"\n">>

QuoteMarkup(text) ==
    LET lines == Split(Strip(text), "\n")
        quoted == [i \in 1..Len(lines) |-> <<"bq.", " ">> \o lines[i]]
    IN <<"\n">> \o Join(quoted, <<"\n">>) \o <<"\n">>

Wrap(l, text, r) == l \o text \o r

\* mutant of InlineCode: the test looks at tag.parent.parent, which is None
\* for an element directly below the soup
InlineCode_Grandparent(st, id) ==
    LET t == st.t
        up == t[id].parent
    IN IF up = 0 \/ t[up].parent = 0 THEN [st EXCEPT !.raised = TRUE]
       ELSE IF t[t[up].parent].name # "pre"
       THEN ReplaceWith(st, id, Wrap(<<"{{">>, GetText(t, id), <<"}}">>))
       ELSE st

\* if tag.parent.name != 'pre': tag.replace_with('{{' + text + '}}');
\* AttributeError when tag.parent is None
InlineCode(st, id) ==
    LET t == st.t
        up == t[id].parent
    IN IF up = 0 THEN [st EXCEPT !.raised = TRUE]
       ELSE IF t[up].name # "pre"
       THEN ReplaceWith(st, id, Wrap(<<"{{">>, GetText(t, id), <<"}}">>))
       ELSE st

\* the body of one of the loops, for the element id
Replace(step, st, id) ==
    LET t == st.t
        n == t[id]
        text == GetText(t, id)
    IN CASE step = "img" -> ReplaceWith(st, id, ImageMarkup(n))
         [] step \in {"h1", "h2", "h3", "h4", "h5", "h6"} ->
                ReplaceWith(st, id, Wrap(<<step, ".", " ">>, text, <<"\n">>))
         [] step = "bold" -> ReplaceWith(st, id, Wrap(<<"*">>, text, <<"*">>))
         [] step = "italic" -> ReplaceWith(st, id, Wrap(<<"_">>, text, <<"_">>))
         [] step = "underline" -> ReplaceWith(st, id, Wrap(<<"+">>, text, <<"+">>))
         [] step = "strike" -> ReplaceWith(st, id, Wrap(<<"-">>, text, <<"-">>))
         [] step = "a" ->
                ReplaceWith(st, id,
                            IF n.href # <<>>
                            THEN <<"[">> \o text \o <<"|">> \o n.href \o <<"]">>
                            ELSE text)
         [] step = "ul" -> ReplaceWith(st, id, ListMarkup(t, id, "*"))
         [] step = "ol" -> ReplaceWith(st, id, ListMarkup(t, id, "#"))
         [] step = "pre" ->
                ReplaceWith(st, id,
                            Wrap(<<"{code}", "\n">>, text, <<"\n", "{code}", "\n">>))
         [] step = "code" -> InlineCode(st, id)
         [] step = "blockquote" -> ReplaceWith(st, id, QuoteMarkup(text))
         [] step = "br" -> ReplaceWith(st, id, <<"\n">>)
         [] step \in {"p", "div"} ->
                ReplaceWith(st, id, Wrap(<<"\n">>, text, <<"\n">>))

RECURSIVE ForEach(_, _, _)
ForEach(step, st, tags) ==
    IF tags = <<>> \/ st.raised THEN st
    ELSE ForEach(step, Replace(step, st, Head(tags)), Tail(tags))

\* for tag in soup.find_all(names): the list is taken before the loop runs
Loop(step, names, st) ==
    IF st.raised THEN st ELSE ForEach(step, st, FindAll(st.t, names))

\* the steps in the order of the source: <<step, tag names>>
Steps ==
    << <<"img", {"img"}>>,
       <<"h1", {"h1"}>>, <<"h2", {"h2"}>>, <<"h3", {"h3"}>>,
       <<"h4", {"h4"}>>, <<"h5", {"h5"}>>, <<"h6", {"h6"}>>,
       <<"bold", {"b", "strong"}>>,
       <<"italic", {"i", "em"}>>,
       <<"underline", {"u"}>>,
       <<"strike", {"s", "strike", "del"}>>,
       <<"a", {"a"}>>,
       <<"ul", {"ul"}>>,
       <<"ol", {"ol"}>>,
       <<"pre", {"pre"}>>,
       <<"code", {"code"}>>,
       <<"blockquote", {"blockquote"}>>,
       <<"br", {"br"}>>,
       <<"p", {"p"}>>,
       <<"div", {"div"}>> >>

\* the soup after the first k steps
RECURSIVE RunSteps(_, _)
RunSteps(st, k) ==
    IF k = 0 THEN st
    ELSE Loop(Steps[k][1], Steps[k][2], RunSteps(st, k - 1))

\* mutant of CleanUp: the pattern of the newlines asks for four of them
CleanUp_FourNewlines(text) ==
    Strip(SubRuns(SubRuns(text, "\n", 4, 2), " ", 2, 1))

\* the clean-up of the extracted text
CleanUp(text) ==
    Strip(SubRuns(SubRuns(text, "\n", 3, 2), " ", 2, 1))

\* mutant of convert_html_to_jira_markup: the text of the soup is returned
\* without the clean-up
convert_html_to_jira_markup_NoCleanUp(html_content) ==
    IF Falsy(html_content) THEN [out |-> <<>>, raised |-> FALSE]
    ELSE LET st == RunSteps([t |-> Parse(html_content.s), raised |-> FALSE],
                            Len(Steps))
         IN IF st.raised THEN [out |-> <<>>, raised |-> TRUE]
            ELSE [out |-> GetText(st.t, Root), raised |-> FALSE]

\* [out, raised]
convert_html_to_jira_markup(html_content) ==
    IF Falsy(html_content) THEN [out |-> <<>>, raised |-> FALSE]
    ELSE LET st == RunSteps([t |-> Parse(html_content.s), raised |-> FALSE],
                            Len(Steps))
         IN IF st.raised THEN [out |-> <<>>, raised |-> TRUE]
            ELSE [out |-> CleanUp(GetText(st.t, Root)), raised |-> FALSE]

-----------------------------------------------------------------------------
(* the messages the mailbox can hold *)

\* longest run of image-level tokens in a body
MaxImgLen == 3
\* deepest nesting of markup elements around a run of content
MaxDepth == 2
\* longest body tried with every contentType
MaxTextLen == 1

B64Png == <<"Q", "U", "J", "D">>
SrcPng == DataImagePrefix \o <<"png", ";", "base64,">> \o B64Png
SrcGif == DataImagePrefix \o <<"gif", ";", "base64,", "Q", "U", "=", "=">>
SrcBadPadding == DataImagePrefix \o <<"png", ";", "base64,", "Q", "U", "J">>
SrcWrapped ==
    DataImagePrefix \o <<"png", ";", "base64,">> \o B64Png \o <<"\n">> \o B64Png
SrcParams ==
    DataImagePrefix \o <<"png", ";", "charset=utf-8", ";", "base64,">> \o B64Png
SrcCid == <<"cid:", "image002.png", "@", "01DB1234.5678ABCD">>
SrcCidBare == <<"cid:", "logo.png">>
SrcCidInner == <<"cid:", "a", "cid:", "b", "@", "host">>
SrcHttp == <<"http:", "/", "/", "host", "/", "pic.png", "?", "v=1", "#", "top">>

SrcValues ==
    {SrcPng, SrcGif, SrcBadPadding, SrcWrapped, SrcParams,
     SrcCid, SrcCidBare, SrcCidInner, SrcHttp, <<>>}

AltText == <<"logo">>
Href == <<"http:", "/", "/", "host", "/", "page">>

ImageTokens ==
    {ImgTok(src, <<>>) : src \in SrcValues}
    \cup {ImgTok(<<>>, AltText), ImgTok(SrcHttp, AltText)}

ImageLevelTokens == ImageTokens \cup {Start("br"), Data("x")}

SeqsUpTo(S, n) == UNION {[1..k -> S] : k \in 0..n}

\* bodies made of images, line breaks and text
ImageBodies == SeqsUpTo(ImageLevelTokens, MaxImgLen)

\* the tags a run of content is nested in
MarkupTags ==
    {Start(n) : n \in {"h1", "h2", "b", "em", "u", "del", "a", "ul", "ol", "li",
                       "pre", "code", "blockquote", "p", "div"}}
    \cup {ATok(Href)}

\* runs of content: text with the whitespace the clean-up looks at, a line
\* break, images
ContentRuns ==
    { <<>>,
      <<Data("x")>>,
      <<Data("x"), Data(" "), Data(" "), Data("y")>>,
      <<Data("x"), Data("\n"), Data("\n"), Data("\n"), Data("y")>>,
      <<Data(" "), Data("x"), Data("\t"), Data("\t"), Data("y"), Data("\n")>>,
      <<Data(" "), Data(" ")>>,
      <<Data("x"), Start("br"), Data("y")>>,
      <<ImgTok(SrcPng, <<>>)>>,
      <<Start("img")>>,
      <<Data("x"), ImgTok(SrcCid, <<>>)>>,
      <<CharRef("<"), Data("b"), CharRef(">"), Data("x")>> }

Closing(opens) == [i \in 1..Len(opens) |-> End(opens[Len(opens) + 1 - i].name)]

\* a run of content inside a chain of nested elements
MarkupBodies ==
    {opens \o run \o Closing(opens) :
        opens \in SeqsUpTo(MarkupTags, MaxDepth), run \in ContentRuns}

\* the examples of the documentation
ExampleBodies ==
    { <<Start("p"), Data("Hello"), Data(" "), Start("b"), Data("World"),
        End("b"), End("p")>>,
      <<Start("ul"), Start("li"), Data("one"), End("li"),
        Start("li"), Data("two"), End("li"), End("ul")>> }

ContentTypes == {"html", "text", "HTML", Missing}

EmailBodies ==
    {[content |-> PyStr(c), contentType |-> "html"] :
        c \in ImageBodies \cup MarkupBodies \cup ExampleBodies}
    \cup {[content |-> PyStr(c), contentType |-> ct] :
            c \in SeqsUpTo(ImageLevelTokens, MaxTextLen), ct \in ContentTypes}
    \cup {[content |-> PyNone, contentType |-> ct] : ct \in ContentTypes}

-----------------------------------------------------------------------------
(* process_email_to_jira, up to the description of the ticket *)

\* one call on its own: the mailbox plays no part in the normalizer
OneCall ==
    /\ folder = <<>> /\ archive = {} /\ tickets = <<>>
    /\ main_pc = "call" /\ runs = 1 /\ messages = <<>> /\ msg_idx = 0
    /\ success_count = 0 /\ processed = <<>>
    /\ userid = "" /\ jira_issue = "" /\ att_idx = 0 /\ calls = <<>>

Init ==
    /\ pc = "extract"
    /\ email_body \in EmailBodies
    /\ body = PyNone
    /\ embedded_objects = <<>>
    /\ jira_body = <<>>
    /\ raised = ""
    /\ OneCall

\* body, embedded_objects = extract_email_body(email_message)
ExtractEmailBody ==
    /\ pc = "extract"
    /\ LET r == extract_embedded_objects_from_email(email_body)
       IN /\ body' = r.body
          /\ embedded_objects' = r.objs
          /\ raised' = IF r.raised THEN "extract_email_body" ELSE ""
          /\ pc' = IF r.raised THEN "failed" ELSE "convert"
    /\ UNCHANGED <<email_body, jira_body, glue>>

\* jira_body = convert_html_to_jira_markup(body)
ConvertBody ==
    /\ pc = "convert"
    /\ LET r == convert_html_to_jira_markup(body)
       IN /\ jira_body' = r.out
          /\ raised' = IF r.raised THEN "convert_html_to_jira_markup" ELSE ""
          /\ pc' = IF r.raised THEN "failed" ELSE "describe"
    /\ UNCHANGED <<email_body, body, embedded_objects, glue>>

Next == ExtractEmailBody \/ ConvertBody

Spec == Init /\ [][Next]_vars

-----------------------------------------------------------------------------
(* main: one run fetches a batch and hands each message to                 *)
(* process_email_to_jira; the next run starts when the script is started   *)
(* again                                                                   *)

\* most messages the polled folder holds
MaxMessages == 3
\* most runs of main
MaxRuns == 2
\* BATCH_SIZE = int(os.getenv('BATCH_SIZE', '10')): a value of the
\* environment below the size of the folder, so that a run leaves messages
\* to the next one
BATCH_SIZE == 2

HtmlMessageBody ==
    [content |-> PyStr(<<Start("p"), Data("x"), ImgTok(SrcPng, <<>>), End("p")>>),
     contentType |-> "html"]
TextMessageBody == [content |-> PyStr(<<Data("x")>>), contentType |-> "text"]

\* what a message of the folder can be: with an embedded image, with file
\* attachments, without a sender
MessageKinds ==
    { [body |-> HtmlMessageBody, hasAttachments |-> FALSE, sender |-> TRUE],
      [body |-> TextMessageBody, hasAttachments |-> TRUE, sender |-> TRUE],
      [body |-> TextMessageBody, hasAttachments |-> FALSE, sender |-> FALSE] }

\* the folder when the first run starts: message i has the id i
Mailboxes ==
    {[i \in 1..Len(kinds) |-> [id |-> i] @@ kinds[i]] :
        kinds \in SeqsUpTo(MessageKinds, MaxMessages)}

MainInit ==
    /\ pc = "idle"
    /\ email_body = [content |-> PyNone, contentType |-> Missing]
    /\ body = PyNone
    /\ embedded_objects = <<>>
    /\ jira_body = <<>>
    /\ raised = ""
    /\ folder \in Mailboxes
    /\ archive = {}
    /\ tickets = [i \in 1..Len(folder) |-> 0]
    /\ main_pc = "start" /\ runs = 1 /\ messages = <<>> /\ msg_idx = 0
    /\ success_count = 0 /\ processed = <<>>
    /\ userid = "" /\ jira_issue = "" /\ att_idx = 0 /\ calls = <<>>

normalizer == <<email_body, body, embedded_objects, jira_body>>

\* the message process_email_to_jira was called with
email_message == messages[msg_idx]

Request(op, ok) == [op |-> op, ok |-> ok, filename |-> <<>>]

\* the clients are built, both folders are found and the batch is fetched:
\* the $top newest messages of the folder; main returns when there is none
FetchMessages ==
    /\ main_pc = "start"
    /\ messages' = SubSeq(folder, 1, IF Len(folder) < BATCH_SIZE
                                     THEN Len(folder) ELSE BATCH_SIZE)
    /\ main_pc' = IF messages' = <<>> THEN "finished" ELSE "loop"
    /\ UNCHANGED <<pc, raised, normalizer, mailboxVars, callVars,
                   runs, msg_idx, success_count, processed>>

\* get_folder_id returns None for one of the folders: main logs and returns
FolderNotFound ==
    /\ main_pc = "start"
    /\ main_pc' = "finished"
    /\ UNCHANGED <<pc, raised, normalizer, mailboxVars, callVars,
                   runs, messages, msg_idx, success_count, processed>>

\* a client cannot be built or a request before the loop raises: main logs
\* the fatal error and raises it again
FatalError ==
    /\ main_pc = "start"
    /\ main_pc' = "fatal"
    /\ UNCHANGED <<pc, raised, normalizer, mailboxVars, callVars,
                   runs, messages, msg_idx, success_count, processed>>

\* for message in messages: process_email_to_jira(..., message, ...)
TakeMessage ==
    /\ main_pc = "loop" /\ msg_idx < Len(messages)
    /\ msg_idx' = msg_idx + 1
    /\ main_pc' = "call"
    /\ pc' = "details"
    /\ email_body' = messages[msg_idx'].body
    /\ body' = PyNone /\ embedded_objects' = <<>> /\ jira_body' = <<>>
    /\ raised' = ""
    /\ userid' = "" /\ jira_issue' = "" /\ att_idx' = 0 /\ calls' = <<>>
    /\ UNCHANGED <<mailboxVars, runs, messages, success_count, processed>>

\* the loop is exhausted: main logs the count and returns
LoopDone ==
    /\ main_pc = "loop" /\ msg_idx = Len(messages)
    /\ main_pc' = "finished"
    /\ UNCHANGED <<pc, raised, normalizer, mailboxVars, callVars,
                   runs, messages, msg_idx, success_count, processed>>

\* sender = email_message['from']['emailAddress']: KeyError without a sender
ExtractDetails ==
    /\ pc = "details"
    /\ IF email_message.sender
       THEN pc' = "userid" /\ raised' = ""
       ELSE pc' = "failed" /\ raised' = "details"
    /\ UNCHANGED <<normalizer, glue>>

\* userid = graph_client.get_userid_from_email(sender_email); an exception
\* is logged and userid is None
GetUserid ==
    /\ pc = "userid"
    /\ \E ok \in BOOLEAN :
          /\ userid' = IF ok THEN "userid" ELSE ""
          /\ calls' = Append(calls, Request("get_userid_from_email", ok))
    /\ pc' = "extract"
    /\ UNCHANGED <<raised, normalizer, mailboxVars, mainVars, jira_issue, att_idx>>

\* mutant of CreateTicket: create_ticket logs the error and returns None
CreateTicket_ErrorSwallowed ==
    /\ pc = "describe"
    /\ \E ok \in BOOLEAN :
          /\ calls' = Append(calls, Request("create_ticket", ok))
          /\ jira_issue' = IF ok THEN "issue" ELSE ""
          /\ tickets' = IF ok THEN [tickets EXCEPT ![email_message.id] = @ + 1]
                        ELSE tickets
    /\ pc' = "attach" /\ raised' = ""
    /\ UNCHANGED <<normalizer, folder, archive, mainVars, userid, att_idx>>

\* jira_issue = jira_client.create_ticket(...): the error is logged and
\* raised again
CreateTicket ==
    /\ pc = "describe"
    /\ \E ok \in BOOLEAN :
          /\ calls' = Append(calls, Request("create_ticket", ok))
          /\ jira_issue' = IF ok THEN "issue" ELSE ""
          /\ tickets' = IF ok THEN [tickets EXCEPT ![email_message.id] = @ + 1]
                        ELSE tickets
          /\ pc' = IF ok THEN "attach" ELSE "failed"
          /\ raised' = IF ok THEN "" ELSE "create_ticket"
    /\ UNCHANGED <<normalizer, folder, archive, mainVars, userid, att_idx>>

\* for embedded_obj in embedded_objects: jira_client.add_attachment(...),
\* which logs an error and returns
AddEmbedded ==
    /\ pc = "attach" /\ att_idx < Len(embedded_objects)
    /\ att_idx' = att_idx + 1
    /\ \E ok \in BOOLEAN :
          calls' = Append(calls, [Request("add_attachment", ok) EXCEPT
                                     !.filename = embedded_objects[att_idx'].filename])
    /\ UNCHANGED <<pc, raised, normalizer, mailboxVars, mainVars, userid, jira_issue>>

\* the loop over the embedded objects is exhausted
EmbeddedDone ==
    /\ pc = "attach" /\ att_idx = Len(embedded_objects)
    /\ pc' = IF email_message.hasAttachments THEN "attachments" ELSE "send"
    /\ UNCHANGED <<raised, normalizer, glue>>

\* attachments = graph_client.get_attachments(message_id), [] on an error,
\* and the upload of the file attachments
FileAttachments ==
    /\ pc = "attachments"
    /\ \E ok \in BOOLEAN :
          calls' = Append(calls, Request("get_attachments", ok))
    /\ pc' = "send"
    /\ UNCHANGED <<raised, normalizer, mailboxVars, mainVars, userid, jira_issue,
                   att_idx>>

\* graph_client.send_email(...): the error is logged and raised again
SendEmail ==
    /\ pc = "send"
    /\ \E ok \in BOOLEAN :
          /\ calls' = Append(calls, Request("send_email", ok))
          /\ pc' = IF ok THEN "move" ELSE "failed"
          /\ raised' = IF ok THEN "" ELSE "send_email"
    /\ UNCHANGED <<normalizer, mailboxVars, mainVars, userid, jira_issue, att_idx>>

\* graph_client.move_message(message_id, archive_folder_id), which logs an
\* error and returns
MoveMessage ==
    /\ pc = "move"
    /\ \E ok \in BOOLEAN :
          /\ calls' = Append(calls, Request("move_message", ok))
          /\ folder' = IF ok
                       THEN SelectSeq(folder, LAMBDA m : m.id # email_message.id)
                       ELSE folder
          /\ archive' = IF ok THEN archive \cup {email_message.id} ELSE archive
    /\ pc' = "return"
    /\ UNCHANGED <<raised, normalizer, tickets, mainVars, userid, jira_issue, att_idx>>

\* return True, and success_count += 1 in main
ReturnTrue ==
    /\ pc = "return" /\ main_pc = "call"
    /\ processed' = Append(processed, [id |-> email_message.id, result |-> TRUE])
    /\ success_count' = success_count + 1
    /\ pc' = "idle" /\ main_pc' = "loop"
    /\ UNCHANGED <<raised, normalizer, mailboxVars, callVars, runs, messages, msg_idx>>

\* mutant of ReturnFalse: the handler logs the error and raises it again
ReturnFalse_Reraise ==
    /\ pc = "failed" /\ main_pc = "call"
    /\ pc' = "idle" /\ main_pc' = "fatal"
    /\ UNCHANGED <<raised, normalizer, mailboxVars, callVars, runs, messages,
                   msg_idx, success_count, processed>>

\* except Exception: the error is logged and the call returns False
ReturnFalse ==
    /\ pc = "failed" /\ main_pc = "call"
    /\ processed' = Append(processed, [id |-> email_message.id, result |-> FALSE])
    /\ pc' = "idle" /\ main_pc' = "loop"
    /\ UNCHANGED <<raised, normalizer, mailboxVars, callVars, runs, messages,
                   msg_idx, success_count>>

\* the script is started again
NextRun ==
    /\ main_pc \in {"finished", "fatal"} /\ runs < MaxRuns
    /\ runs' = runs + 1
    /\ main_pc' = "start"
    /\ messages' = <<>> /\ msg_idx' = 0 /\ success_count' = 0 /\ processed' = <<>>
    /\ UNCHANGED <<pc, raised, normalizer, mailboxVars, callVars>>

\* a step of process_email_to_jira
CallStep ==
    \/ ExtractDetails \/ GetUserid \/ ExtractEmailBody \/ ConvertBody
    \/ CreateTicket \/ AddEmbedded \/ EmbeddedDone \/ FileAttachments
    \/ SendEmail \/ MoveMessage \/ ReturnTrue \/ ReturnFalse

\* a step of one run of main
RunStep ==
    \/ FetchMessages \/ FolderNotFound \/ FatalError
    \/ TakeMessage \/ LoopDone
    \/ CallStep

MainNext == RunStep \/ NextRun

MainSpec == MainInit /\ [][MainNext]_vars
-----------------------------------------------------------------------------
(* what the properties below speak of *)

IsHtml == email_body.contentType = "html"
Extracted == pc \in {"convert", "describe"}
Converted == pc = "describe"

IsImg(tok) == tok.k \in {"start", "startend"} /\ tok.name = "img"
\* the <img> tags of an HTML string, in document order
ImgsOf(toks) == SelectSeq(toks, IsImg)
AttrsOf(tok) == [src |-> tok.src, alt |-> tok.alt, href |-> tok.href]
\* a string as it appears as character data of an HTML string
AsData(s) == [i \in 1..Len(s) |-> Data(s[i])]
Count(toks, tok) == Len(SelectSeq(toks, LAMBDA x : x = tok))

\* src has the form data:image/<subtype>;base64,<payload>
IsBase64DataUri(src) ==
    \E n \in 1..Len(src) :
        /\ StartsWith(src, DataImagePrefix)
        /\ \A i \in (Len(DataImagePrefix) + 1)..(Len(DataImagePrefix) + n) :
               i <= Len(src) /\ src[i] # ";"
        /\ StartsWith(DropFirst(src, Len(DataImagePrefix) + n), <<";", "base64,">>)
SubtypeOf(src) ==
    LET rest == DropFirst(src, Len(DataImagePrefix))
    IN SubSeq(rest, 1, RunLen(rest, AtomsOf(rest) \ {";"}))
\* everything after ";base64,"
PayloadOf(src) == DropFirst(src, Len(DataImagePrefix) + Len(SubtypeOf(src)) + 2)

\* the extractor took the image out: it decoded its data URI, or its src
\* begins with cid:
Decoded(tok) ==
    /\ DataUriMatch(tok.src).ok
    /\ B64Decode(DataUriMatch(tok.src).base64_data).ok
IsCid(tok) == StartsWith(tok.src, CidPrefix)
TakenOut(tok) == Decoded(tok) \/ IsCid(tok)

-----------------------------------------------------------------------------
\* C1 (as stated): once an html body is extracted, no <img> element of any
\* kind remains in the cleaned content.
C1_NoImgRemains ==
    (Extracted /\ IsHtml /\ ~Falsy(email_body.content))
        => ImgsOf(body.s) = <<>>

\* C1 (amended): once an html body is extracted, the <img> elements whose
\* data URI was decoded and those whose src begins with cid: are gone, each
\* replaced by one thumbnail placeholder, and every produced object's
\* filename is named by a placeholder of the cleaned content; the <img>
\* elements with any other src, with no src, or with a data URI that did not
\* decode remain, unchanged and in order.
C1_ImgReplacedOrKept ==
    (Extracted /\ IsHtml /\ ~Falsy(email_body.content)) =>
        LET imgs == ImgsOf(email_body.content.s)
            kept == SelectSeq(imgs, LAMBDA tok : ~TakenOut(tok))
            taken == SelectSeq(imgs, TakenOut)
            left == ImgsOf(body.s)
        IN /\ [i \in 1..Len(left) |-> AttrsOf(left[i])]
                  = [i \in 1..Len(kept) |-> AttrsOf(kept[i])]
           /\ Count(body.s, Data("|thumbnail!")) = Len(taken)
           /\ \A j \in 1..Len(embedded_objects) :
                  Contains(body.s, AsData(Thumbnail(embedded_objects[j].filename)))

\* C1 witness: an extraction that took one image out and left another in
C1_Witness ==
    /\ Extracted /\ IsHtml
    /\ Len(embedded_objects) = 1
    /\ Len(ImgsOf(body.s)) = 1
    /\ Len(ImgsOf(email_body.content.s)) = 2

\* C2: every produced object is named embedded_image_<k>.<subtype>, k being
\* the 1-based position of its <img> among all <img> elements of the input,
\* so the filenames of one run are pairwise distinct.
C2_FilenameIsPosition ==
    (Extracted /\ IsHtml) =>
        LET imgs == ImgsOf(email_body.content.s)
            objs == embedded_objects
            \* positions whose image can have produced the object j
            Fits(j, k) ==
                /\ IsBase64DataUri(imgs[k].src)
                /\ objs[j].filename =
                      <<"embedded_image_">> \o DecStr(k) \o <<".">>
                          \o SubtypeOf(imgs[k].src)
        IN /\ \E f \in [1..Len(objs) -> 1..Len(imgs)] :
                  /\ \A j \in 1..Len(objs) : Fits(j, f[j])
                  /\ \A i, j \in 1..Len(objs) : i < j => f[i] < f[j]
           /\ \A i, j \in 1..Len(objs) :
                  i # j => objs[i].filename # objs[j].filename

\* C2 witness: an object named for position 2 behind an image that produced
\* none
C2_Witness ==
    /\ Extracted /\ IsHtml
    /\ Len(embedded_objects) = 1
    /\ embedded_objects[1].filename = <<"embedded_image_", "2", ".", "png">>
    /\ Len(ImgsOf(email_body.content.s)) = 2

\* C3: the object list holds exactly one object for each <img> whose src is
\* a base64 data URI that decodes, in document order, with the decoded
\* payload as content and image/<subtype> as content_type, and nothing else.
C3_ObjectsAreDecodedPayloads ==
    (Extracted /\ IsHtml) =>
        LET imgs == ImgsOf(email_body.content.s)
            good == SelectSeq(imgs, LAMBDA tok :
                        /\ IsBase64DataUri(tok.src)
                        /\ B64Decode(PayloadOf(tok.src)).ok)
        IN [j \in 1..Len(embedded_objects) |->
               [content |-> embedded_objects[j].content,
                content_type |-> embedded_objects[j].content_type]]
           = [j \in 1..Len(good) |->
               [content |-> B64Decode(PayloadOf(good[j].src)).bytes,
                content_type |-> <<"image", "/">> \o SubtypeOf(good[j].src)]]

\* C4: a data URI that fails to decode raises nothing, leaves its <img> in
\* place and produces no object, and every other image is handled as it is
\* when the failing image decodes or is absent: the run differs from the run
\* on the same body with that payload repaired only in that image's object
\* and placeholder, and it produces the contents and content types of the run
\* on the body without that image.
C4_FailedDecodeIsSkipped ==
    /\ raised # "extract_email_body"
    /\ (Extracted /\ IsHtml) =>
        LET toks == email_body.content.s
            failing == {p \in 1..Len(toks) :
                           /\ IsImg(toks[p])
                           /\ DataUriMatch(toks[p].src).ok
                           /\ ~Decoded(toks[p])}
        IN \A p \in failing :
              LET k == Len(ImgsOf(SubSeq(toks, 1, p)))
                  repaired == [toks EXCEPT ![p] = ImgTok(SrcPng, toks[p].alt)]
                  r == extract_embedded_images(PyStr(repaired))
                  name == <<"embedded_image_">> \o DecStr(k) \o <<".", "png">>
                  mark == AsData(Thumbnail(name))
                  same == [toks[p] EXCEPT !.k = "startend"]
                  absent == extract_embedded_images(
                                PyStr(SubSeq(toks, 1, p - 1) \o DropFirst(toks, p)))
                  Payload(objs) ==
                      [j \in 1..Len(objs) |->
                          [content |-> objs[j].content,
                           content_type |-> objs[j].content_type]]
              IN /\ Payload(embedded_objects) = Payload(absent.objs)
                 /\ embedded_objects =
                        SelectSeq(r.objs, LAMBDA o : o.filename # name)
                 /\ \E i \in 0..(Len(body.s) - 1) :
                        /\ body.s[i + 1] = same
                        /\ r.body.s = SubSeq(body.s, 1, i) \o mark
                                          \o DropFirst(body.s, i + 1)

\* C4 witness: a failed decode followed by an image that was extracted
C4_Witness ==
    /\ Extracted /\ IsHtml
    /\ Len(email_body.content.s) = 2
    /\ email_body.content.s[1] = ImgTok(SrcBadPadding, <<>>)
    /\ Len(embedded_objects) = 1
    /\ ImgsOf(body.s) = << [ImgTok(SrcBadPadding, <<>>) EXCEPT !.k = "startend"] >>

\* C5: for an <img> whose src begins with cid:, the content-ID is src without
\* that leading prefix, character for character, and the placeholder names
\* the content-ID up to its first "@" (all of it when it has none).
C5_CidPlaceholder ==
    (Extracted /\ IsHtml) =>
        \A tok \in {t \in AtomsOf(ImgsOf(email_body.content.s)) : IsCid(t)} :
            LET cid == DropFirst(tok.src, Len(CidPrefix))
                at == RunLen(cid, AtomsOf(cid) \ {"@"})
            IN Contains(body.s, AsData(Thumbnail(SubSeq(cid, 1, at))))

\* the tags of an HTML string are written the way str(soup) writes them:
\* empty-element tags self-closed and no others, every element closed where
\* it ends, and whitespace-only character data one space or one newline
RECURSIVE WellNested(_, _)
WellNested(toks, open) ==
    IF toks = <<>> THEN open = <<>>
    ELSE LET tok == Head(toks)
         IN CASE tok.k \in {"data", "charref"} -> WellNested(Tail(toks), open)
              [] tok.k = "startend" ->
                     tok.name \in EmptyElementTags /\ WellNested(Tail(toks), open)
              [] tok.k = "start" ->
                     /\ tok.name \notin EmptyElementTags
                     /\ WellNested(Tail(toks), <<tok.name>> \o open)
              [] tok.k = "end" ->
                     /\ open # <<>>
                     /\ Head(open) = tok.name
                     /\ WellNested(Tail(toks), Tail(open))

IsText(tok) == tok.k \in {"data", "charref"}
IsSpaceData(tok) == tok.k = "data" /\ tok.name \in AsciiSpaces
Canonical(toks) ==
    /\ WellNested(toks, <<>>)
    /\ \A i \in 1..Len(toks) :
           IsSpaceData(toks[i]) =>
               \/ toks[i].name \in {" ", "\n"}
                  /\ (i = 1 \/ ~IsText(toks[i - 1]))
                  /\ (i = Len(toks) \/ ~IsText(toks[i + 1]))
               \/ \E j \in 1..Len(toks) :
                      /\ IsText(toks[j]) /\ ~IsSpaceData(toks[j])
                      /\ \A m \in 1..Len(toks) :
                             ((j <= m /\ m <= i) \/ (i <= m /\ m <= j))
                                 => IsText(toks[m])

NoImgHtml ==
    /\ Extracted /\ IsHtml
    /\ ImgsOf(email_body.content.s) = <<>>

C7_NonHtmlUntouched ==
    (Extracted /\ ~IsHtml) =>
        body = email_body.content /\ embedded_objects = <<>>

\* C7 witness: a body without contentType that holds a decodable data URI
C7_Witness ==
    /\ Extracted
    /\ email_body.contentType = Missing
    /\ email_body.content = PyStr(<<ImgTok(SrcPng, <<>>)>>)

\* C8: convert_html_to_jira_markup raises for no input; empty and None input
\* give the empty string; an <img> with neither src nor alt becomes the text
\* [Image]; elements nested in elements of the same or an earlier-handled
\* kind are translated without an error.
C8_ConvertNeverRaises ==
    /\ raised # "convert_html_to_jira_markup"
    /\ Converted =>
        /\ Falsy(body) => jira_body = <<>>
        /\ LET t0 == Parse(body.s)
               t1 == RunSteps([t |-> t0, raised |-> FALSE], 1).t
           IN /\ FindAll(t1, {"img"}) = <<>>
              /\ \A id \in AtomsOf(FindAll(t0, {"img"})) :
                     (t0[id].src = <<>> /\ t0[id].alt = <<>>) =>
                         \E i \in 1..Len(t0[t0[id].parent].kids) :
                             /\ t0[t0[id].parent].kids[i] = id
                             /\ t1[t1[t0[id].parent].kids[i]].name = "#text"
                             /\ t1[t1[t0[id].parent].kids[i]].text = <<"[Image]">>

\* C8 witness: a bare <img> inside a bold element nested in a bold element
C8_Witness ==
    /\ Converted
    /\ body.s = <<Start("b"), Start("b"), StartEnd("img"), End("b"), End("b")>>
    /\ jira_body = <<"*", "[Image]", "*">>

\* the text of a link after the clean-up of spaces and newlines
Squeezed(text) == SubRuns(SubRuns(text, "\n", 3, 2), " ", 2, 1)

\* position of a step in Steps
StepNo(step) == CHOOSE k \in 1..Len(Steps) : Steps[k][1] = step

\* the elements an element sits in, innermost first
RECURSIVE Ancestors(_, _)
Ancestors(t, id) ==
    IF t[id].parent \in {0, Root} THEN <<>>
    ELSE <<t[id].parent>> \o Ancestors(t, t[id].parent)

\* C9: every <a> with a href appears in the output as [<text>|<href>],
\* wherever it sits, also inside an element that an earlier step has
\* replaced; a link without href appears as its text.  <text> is the text of
\* the link when the loop over the links starts; a link inside another link
\* and a link with empty text are not looked at.
C9_LinkMarkup ==
    Converted =>
        LET t0 == Parse(body.s)
            t == RunSteps([t |-> t0, raised |-> FALSE], StepNo("a") - 1).t
        IN \A id \in AtomsOf(FindAll(t0, {"a"})) :
               LET text == Squeezed(GetText(t, id))
               IN (/\ text # <<>>
                   /\ \A up \in AtomsOf(Ancestors(t0, id)) : t0[up].name # "a") =>
                      IF t0[id].href # <<>>
                      THEN Contains(jira_body, <<"[">> \o text \o <<"|">>
                                                   \o t0[id].href \o <<"]">>)
                      ELSE Contains(jira_body, Strip(text))

\* C10: the text of every <pre> block stands between {code} fences in the
\* output verbatim, its runs of spaces and of newlines as they were.
C10_PreVerbatim ==
    Converted =>
        LET t == RunSteps([t |-> Parse(body.s), raised |-> FALSE], StepNo("pre") - 1).t
        IN \A id \in AtomsOf(FindAll(t, {"pre"})) :
               Contains(jira_body,
                        <<"{code}", "\n">> \o GetText(t, id) \o <<"\n", "{code}">>)

\* s holds n consecutive atoms of the set somewhere
HasRun(s, set, n) ==
    \E i \in 1..(Len(s) - n + 1) : \A j \in i..(i + n - 1) : s[j] \in set

\* the text of the soup when all the loops have run, before the clean-up
RawText ==
    GetText(RunSteps([t |-> Parse(body.s), raised |-> FALSE], Len(Steps)).t, Root)

\* C11 (as stated): every returned string has no run of three or more
\* newlines, no run of two or more spaces or tabs, and no whitespace at its
\* start or end.
C11_Normalized ==
    Converted =>
        /\ ~HasRun(jira_body, {"\n"}, 3)
        /\ ~HasRun(jira_body, {" ", "\t"}, 2)
        /\ jira_body # <<>> =>
               Head(jira_body) \notin Whitespace /\ Last(jira_body) \notin Whitespace

\* C11 (amended): every returned string has no run of three or more newlines,
\* no run of two or more space characters, and no whitespace at its start or
\* end; tabs are left as they are.
C11_SpacesNormalized ==
    Converted =>
        /\ ~HasRun(jira_body, {"\n"}, 3)
        /\ ~HasRun(jira_body, {" "}, 2)
        /\ jira_body # <<>> =>
               Head(jira_body) \notin Whitespace /\ Last(jira_body) \notin Whitespace

\* C11 witness: three newlines in a row inside the text came out as two
C11_Witness ==
    /\ Converted /\ ~Falsy(body)
    /\ HasRun(Strip(RawText), {"\n"}, 3)
    /\ HasRun(jira_body, {"\n"}, 2)

\* an HTML string without tags: character data and character references
PlainText(toks) == \A i \in 1..Len(toks) : IsText(toks[i])
\* the characters of such a string as they are written
SourceText(toks) ==
    [i \in 1..Len(toks) |->
        IF toks[i].k = "charref"
        THEN (CASE toks[i].name = "<" -> "&lt;" [] toks[i].name = ">" -> "&gt;"
                [] toks[i].name = "&" -> "&amp;")
        ELSE toks[i].name]
\* neither "<" nor "&" occurs in the string
NoMarkupChars(toks) ==
    \A i \in 1..Len(toks) : toks[i].k = "data" /\ toks[i].name \notin {"<", "&"}
\* the translator applied to a string it returned
Again(s) == convert_html_to_jira_markup(PyStr(Tokenize(s)))

\* C12 (as stated): for every input without HTML tags the result is the
\* input text with its newline and space runs collapsed and its ends trimmed,
\* and the translator applied to that result returns it unchanged.
C12_PlainTextIdempotent ==
    (Converted /\ PlainText(body.s)) =>
        /\ jira_body = Strip(Squeezed(SourceText(body.s)))
        /\ Again(jira_body) = [out |-> jira_body, raised |-> FALSE]

\* C12 (amended): the same for every input that holds neither "<" nor "&":
\* no tag and no character reference.
C12_PlainTextNoRefs ==
    (Converted /\ NoMarkupChars(body.s)) =>
        /\ jira_body = Strip(Squeezed(SourceText(body.s)))
        /\ Again(jira_body) = [out |-> jira_body, raised |-> FALSE]

\* C12 witness: a text without "<" and "&" that the translator changed
C12_Witness ==
    /\ Converted /\ NoMarkupChars(body.s)
    /\ jira_body # <<>>
    /\ jira_body # SourceText(body.s)

-----------------------------------------------------------------------------
(* what the properties of main speak of *)

Ids(msgs) == [i \in 1..Len(msgs) |-> msgs[i].id]
\* main is in its loop, or in a call made from it
Running == main_pc \in {"loop", "call"}

\* how far process_email_to_jira is from its return, at most
Rank(p) ==
    CASE p = "idle" -> 0
      [] p = "details" -> 90
      [] p = "userid" -> 80
      [] p = "extract" -> 70
      [] p = "convert" -> 60
      [] p = "describe" -> 50
      [] p = "attach" -> 20 + (Len(embedded_objects) - att_idx)
      [] p = "attachments" -> 15
      [] p = "send" -> 10
      [] p = "move" -> 5
      [] p \in {"return", "failed"} -> 1
\* how far the run is from its end, at most
Measure ==
    (Len(messages) - msg_idx) * 100 + Rank(pc) + (IF Running THEN 1 ELSE 0)

\* the steps of a run besides the two of the normalizer, which can be taken
\* whenever the call is at them
GlueStep ==
    \/ TakeMessage \/ LoopDone \/ ExtractDetails \/ GetUserid \/ CreateTicket
    \/ AddEmbedded \/ EmbeddedDone \/ FileAttachments \/ SendEmail
    \/ MoveMessage \/ ReturnTrue \/ ReturnFalse

\* the calls made so far are the first messages of the batch, in its order;
\* a run that finished its loop has made them all; a fatal error comes only
\* from before the loop; a run that has not ended can take a step
C13_State ==
    /\ (Running \/ main_pc = "finished") =>
          /\ Ids(processed) = SubSeq(Ids(messages), 1, Len(processed))
          /\ Len(processed) = IF main_pc = "call" THEN msg_idx - 1 ELSE msg_idx
    /\ main_pc = "finished" => msg_idx = Len(messages)
    /\ main_pc = "fatal" => messages = <<>>
    /\ Running => (pc \in {"extract", "convert"} \/ ENABLED GlueStep)

\* C13: in one run every message of the fetched batch is passed to
\* process_email_to_jira exactly once, in the fetched order, whatever fails
\* in a call; no failure in a call ends the run, and every step inside the
\* loop brings the run nearer to its end, so the run terminates.
C13_BatchProcessedInOrder ==
    /\ []C13_State
    /\ [][Running => (main_pc' # "fatal" /\ Measure' < Measure)]_vars

\* C13 witness: a run that ended after a call that failed and a later call
\* that returned True
C13_Witness ==
    /\ main_pc = "finished"
    /\ Len(processed) = 2
    /\ processed[1].result = FALSE
    /\ processed[2].result = TRUE

\* the requests of the current call for an operation, by outcome
Made(op) == {i \in 1..Len(calls) : calls[i].op = op}
MadeWith(op, ok) == {i \in Made(op) : calls[i].ok = ok}

\* C14: in a call of process_email_to_jira the move to the archive is
\* requested only after the ticket was created and the confirmation was sent
\* in that call; when the creation of the ticket fails, the call uploads no
\* attachment, sends no confirmation, requests no move, and leaves the
\* message in the polled folder.
C14_MoveOnlyAfterTicket ==
    /\ \A i \in Made("move_message") :
          /\ \E j \in MadeWith("create_ticket", TRUE) : j < i
          /\ \E j \in MadeWith("send_email", TRUE) : j < i
    /\ MadeWith("create_ticket", FALSE) # {} =>
          /\ Made("add_attachment") = {}
          /\ Made("get_attachments") = {}
          /\ Made("send_email") = {}
          /\ Made("move_message") = {}
          /\ jira_issue = ""
          /\ (Running /\ msg_idx > 0) =>
                 \E i \in 1..Len(folder) : folder[i].id = email_message.id

\* C14 witness: a call that returned False after create_ticket failed
C14_Witness ==
    /\ main_pc = "loop" /\ msg_idx > 0
    /\ MadeWith("create_ticket", FALSE) # {}
    /\ processed[Len(processed)] = [id |-> email_message.id, result |-> FALSE]

\* C15: a message for which a ticket was created has left the polled folder
\* when the run ends, whatever fails after the creation; so no message gets
\* more than one ticket over the runs; and a call returns True only for a
\* message that is in the archive.
C15_TicketedMessageArchived ==
    /\ \A id \in DOMAIN tickets : tickets[id] <= 1
    /\ main_pc = "finished" =>
          \A id \in DOMAIN tickets :
              tickets[id] > 0 => \A i \in 1..Len(folder) : folder[i].id # id
    /\ \A i \in 1..Len(processed) :
          processed[i].result => processed[i].id \in archive

\* the elements the claim names as places of an image
NamedPlaces ==
    {"a", "h1", "h2", "h3", "h4", "h5", "h6", "li", "p", "blockquote", "pre"}

\* C16: for every object the extractor returned for an image inside a link,
\* heading, list item, paragraph, blockquote or preformatted block, the
\* markup produced from the cleaned content still holds the placeholder
\* !<filename>|thumbnail! with that object's filename.
C16_PlaceholderSurvives ==
    (Converted /\ IsHtml) =>
        LET t0 == Parse(email_body.content.s)
            imgs == FindAll(t0, {"img"})
        IN \A k \in 1..Len(imgs) :
              LET match == DataUriMatch(t0[imgs[k]].src)
                  filename == EmbeddedFilename(k - 1, match.image_type)
              IN (/\ match.ok
                  /\ \E j \in 1..Len(embedded_objects) :
                         embedded_objects[j].filename = filename
                  /\ \E up \in AtomsOf(Ancestors(t0, imgs[k])) :
                         t0[up].name \in NamedPlaces)
                     => Contains(jira_body, Thumbnail(filename))

====
